---- MODULE Spec2Model ----
(***************************************************************************)
(* Model of the RAG demo notebook rag-db2-demo.ipynb: the overlapping      *)
(* sentence chunker (a loop, one action per iteration) and the notebook    *)
(* cells that fetch, chunk, embed, store and retrieve.                     *)
(*                                                                         *)
(* A string is kept run-length encoded: the sequence of its runs of words,  *)
(* a run [s |-> k, n |-> c] being c words of the sentence at position k of  *)
(* the document, so that " ".join of strings is their concatenation.        *)
(***************************************************************************)
EXTENDS Integers, Sequences, FiniteSets, TLC

\* ------------------------------------------------------------------ bounds
MaxSents == 4
MaxSentWords == 3
MaxW == 4
MaxO == 3
MaxChunks == 7
MaxArticleSents == 7
MaxBadEmbeddings == 1
MaxRuns == 2

\* ------------------------------------------------------- program constants
EmbeddingDim == 384
TopK == 5
NotebookMaxWords == 200
NotebookOverlapWords == 50

VARIABLES
    sentences,       \* list of sentence strings (after nlp segmentation)
    max_words,
    overlap_words,
    chunks,          \* list of chunk strings
    current_chunk,   \* list of sentence strings
    current_length,
    i,               \* 0-based scan index, as in the code
    pc,
    \* notebook globals and the database session
    article,         \* the extracted text, or undefined (never assigned)
    nb_chunks,       \* the notebook's global `chunks`
    embeddings,      \* embeddings["data"]
    values,          \* list of (content, vector_str)
    ins,             \* position of the insert loop in values
    table,           \* the embeddings table of the database, or no table
    autocommit,
    query_vector,
    result_df,
    context_str,
    question,
    prompt,
    run,             \* number of the current run of the notebook
    downloaded,      \* what fetch_url returned: "html", "None", or "unbound"
    fetch_output,    \* what the fetch cell printed when it last ran
    skipped,         \* the rows the insert cell printed as skipped
    statements       \* the SQL statements of the insert cell's last execution

chunkerVars == <<sentences, max_words, overlap_words, chunks, current_chunk,
                 current_length, i>>
nbVars == <<article, nb_chunks, embeddings, values, ins, table, autocommit,
            query_vector, result_df, context_str, question, prompt, run,
            downloaded, fetch_output, skipped, statements>>
vars == <<chunkerVars, pc, nbVars>>

\* ----------------------------------------------------------------- strings
\* The text of the k-th sentence of a document, n words long.
SentenceText(k, n) == <<[s |-> k, n |-> n]>>

\* len(s.split())
RECURSIVE WordCount(_)
WordCount(s) == IF s = <<>> THEN 0 ELSE Head(s).n + WordCount(Tail(s))

\* " ".join(list)
RECURSIVE Join(_)
Join(list) == IF list = <<>> THEN <<>> ELSE Head(list) \o Join(Tail(list))

\* The documents of n sentences, the k-th of lens[k] words.
Document(lens) == [k \in 1..Len(lens) |-> SentenceText(k, lens[k])]

SentenceLists(maxN, wordCounts) ==
    UNION { { Document(lens) : lens \in [1..n -> wordCounts] } : n \in 0..maxN }

\* ----------------------------------------------------------------- chunker
\* Variant: the test made before the sentence is counted.
FitsOffByCheck(cur_len, sent_len, w) == cur_len <= w
\* if current_length + sentence_length <= max_words
Fits(cur_len, sent_len, w) == cur_len + sent_len <= w

\* Variant: j > 0, the walk never takes the first sentence of the buffer.
WalkGuardSkipsFirst(j, overlap_len, ow) == j > 1 /\ overlap_len < ow
\* while j >= 0 and overlap_len < overlap_words   (j is 1-based here)
WalkGuard(j, overlap_len, ow) == j >= 1 /\ overlap_len < ow

\* The backward walk over the just-closed buffer.
RECURSIVE OverlapWalk(_, _, _, _, _)
OverlapWalk(cc, j, overlap, overlap_len, ow) ==
    IF WalkGuard(j, overlap_len, ow)
    THEN OverlapWalk(cc, j - 1, <<cc[j]>> \o overlap,
                     overlap_len + WordCount(cc[j]), ow)
    ELSE [overlap |-> overlap, overlap_len |-> overlap_len]

Overlap(cc, ow) == OverlapWalk(cc, Len(cc), <<>>, 0, ow)

\* The call: locals as set before the while loop.
ChunkerEntry(sents, w, o) ==
    /\ sentences' = sents
    /\ max_words' = w
    /\ overlap_words' = o
    /\ chunks' = <<>>
    /\ current_chunk' = <<>>
    /\ current_length' = 0
    /\ i' = 0

\* One iteration of the while loop, if branch.
AppendSentence ==
    /\ pc = "loop"
    /\ i < Len(sentences)
    /\ LET sentence == sentences[i + 1]
           sentence_length == WordCount(sentence)
       IN /\ Fits(current_length, sentence_length, max_words)
          /\ current_chunk' = Append(current_chunk, sentence)
          /\ current_length' = current_length + sentence_length
          /\ i' = i + 1
    /\ UNCHANGED <<sentences, max_words, overlap_words, chunks, pc, nbVars>>

\* Variant: the else branch also advances i.
CloseChunkSkipsSentence ==
    /\ pc = "loop"
    /\ i < Len(sentences)
    /\ Len(chunks) < MaxChunks
    /\ ~Fits(current_length, WordCount(sentences[i + 1]), max_words)
    /\ chunks' = Append(chunks, Join(current_chunk))
    /\ LET o == Overlap(current_chunk, overlap_words)
       IN /\ current_chunk' = o.overlap
          /\ current_length' = o.overlap_len
    /\ i' = i + 1
    /\ UNCHANGED <<sentences, max_words, overlap_words, pc, nbVars>>

\* One iteration of the while loop, else branch: i is not advanced.  The
\* list of chunks is cut off at MaxChunks.
CloseChunk ==
    /\ pc = "loop"
    /\ i < Len(sentences)
    /\ Len(chunks) < MaxChunks
    /\ ~Fits(current_length, WordCount(sentences[i + 1]), max_words)
    /\ chunks' = Append(chunks, Join(current_chunk))
    /\ LET o == Overlap(current_chunk, overlap_words)
       IN /\ current_chunk' = o.overlap
          /\ current_length' = o.overlap_len
    /\ UNCHANGED <<sentences, max_words, overlap_words, i, pc, nbVars>>

\* Variant: the return without the final flush.
ReturnChunksNoFlush ==
    /\ pc = "loop"
    /\ i >= Len(sentences)
    /\ pc' = "done"
    /\ UNCHANGED <<chunkerVars, nbVars>>

\* Loop exit, the final flush and the return.
ReturnChunks ==
    /\ pc = "loop"
    /\ i >= Len(sentences)
    /\ chunks' = IF current_chunk # <<>>
                 THEN Append(chunks, Join(current_chunk))
                 ELSE chunks
    /\ pc' = "done"
    /\ UNCHANGED <<sentences, max_words, overlap_words, current_chunk,
                   current_length, i, nbVars>>

\* ---------------------------------------------------------------- notebook
\* A name the kernel has not bound yet.
Undefined == [defined |-> FALSE]
NoneValue == [none |-> TRUE]
NoTable == [exists |-> FALSE]

\* What trafilatura.extract can give: texts of one, three or MaxArticleSents
\* sentences, all of 100 words or all of 120 words.
Articles ==
    { Document([k \in 1..n |-> w]) : n \in {1, 3, MaxArticleSents},
                                      w \in {100, 120} }
Questions == {SentenceText(1, 1), SentenceText(3, 1)}

\* nlp(text).sents, stripped, the empty ones dropped.
Segment(text) == SelectSeq(text, LAMBDA s : s # <<>>)

\* A vector of dim floats is kept as its leading elements, the others being 0.
\* The embedding model is a deterministic function of the text.
EmbedText(text) ==
    [dim |-> EmbeddingDim, lead |-> <<Head(text).s, WordCount(text) \div 100>>]

\* What an item of embeddings["data"] can hold instead of a 384-float vector.
BadEmbeddings ==
    { NoneValue,
      [dim |-> 0, lead |-> <<>>],
      [dim |-> EmbeddingDim - 1, lead |-> <<1, 1>>] }

\* Variant: the length is not tested.
ValidEmbeddingAnyLength(embedding) ==
    embedding # NoneValue /\ embedding.dim > 0
\* embedding and len(embedding) == 384
ValidEmbedding(embedding) ==
    embedding # NoneValue /\ embedding.dim > 0 /\ embedding.dim = EmbeddingDim

\* str(x) of a float, and the FLOAT32 the database reads back from it.
FloatStr(x) == <<"repr", x>>
ParseFloat(t) == t[2]

\* "[" + ", ".join(map(str, embedding)) + "]"
VectorStr(embedding) ==
    [count |-> embedding.dim,
     lead |-> [k \in 1..Len(embedding.lead) |-> FloatStr(embedding.lead[k])]]

\* VECTOR(str, 384, FLOAT32): an error unless str lists exactly 384 numbers.
ParseVector(vector_str, dim) ==
    IF vector_str.count = dim
    THEN [dim |-> dim,
          lead |-> [k \in 1..Len(vector_str.lead)
                      |-> ParseFloat(vector_str.lead[k])]]
    ELSE NoneValue

\* Variant: the content taken at the wrong position.
RECURSIVE PrepareFromMisaligned(_, _, _)
PrepareFromMisaligned(texts, data, k) ==
    IF k > Len(texts) \/ k > Len(data) THEN <<>>
    ELSE LET embedding == data[k].embedding
             rest == PrepareFromMisaligned(texts, data, k + 1)
         IN IF ValidEmbedding(embedding)
            THEN <<[content |-> texts[Len(rest) + 1],
                    vector_str |-> VectorStr(embedding)]>> \o rest
            ELSE rest

\* The values preparation loop over zip(chunks, embeddings["data"]).
RECURSIVE PrepareFrom(_, _, _)
PrepareFrom(texts, data, k) ==
    IF k > Len(texts) \/ k > Len(data) THEN <<>>
    ELSE LET embedding == data[k].embedding
             rest == PrepareFrom(texts, data, k + 1)
         IN IF ValidEmbedding(embedding)
            THEN <<[content |-> texts[k],
                    vector_str |-> VectorStr(embedding)]>> \o rest
            ELSE rest

\* The else branch of that loop: print(f"Skipping row {i+1}: invalid
\* embedding"), kept as the list of the row numbers printed.
RECURSIVE SkippedFrom(_, _, _)
SkippedFrom(texts, data, k) ==
    IF k > Len(texts) \/ k > Len(data) THEN <<>>
    ELSE IF ValidEmbedding(data[k].embedding)
         THEN SkippedFrom(texts, data, k + 1)
         ELSE <<k>> \o SkippedFrom(texts, data, k + 1)

\* Square of VECTOR_DISTANCE(a, b, EUCLIDEAN); the order by the distance is
\* the order by its square.
RECURSIVE SumSquares(_, _, _)
SumSquares(a, b, k) ==
    IF k > Len(a) THEN 0
    ELSE (a[k] - b[k]) * (a[k] - b[k]) + SumSquares(a, b, k + 1)

EuclideanSq(a, b) == SumSquares(a.lead, b.lead, 1)

\* Variant: ORDER BY DISTANCE DESC.
NextInOrderDesc(rows, left, q) ==
    { r \in left : \A o \in left :
        EuclideanSq(q, rows[r].embedding) >= EuclideanSq(q, rows[o].embedding) }
\* ORDER BY DISTANCE ASC: the rows that may come next among those left.
NextInOrder(rows, left, q) ==
    { r \in left : \A o \in left :
        EuclideanSq(q, rows[r].embedding) <= EuclideanSq(q, rows[o].embedding) }

\* FETCH FIRST k ROWS ONLY of the ordered rows; rows at the same distance
\* come in any order.
RECURSIVE FetchFirst(_, _, _, _)
FetchFirst(rows, left, q, k) ==
    IF k = 0 \/ left = {} THEN {<<>>}
    ELSE UNION { { <<r>> \o t : t \in FetchFirst(rows, left \ {r}, q, k - 1) }
                 : r \in NextInOrder(rows, left, q) }

\* The "\n\n" between two contents: a run that is in no sentence.
BlankLine == [s |-> 0, n |-> 0]

\* "\n\n".join(list)
RECURSIVE JoinBlankLine(_)
JoinBlankLine(list) ==
    IF list = <<>> THEN <<>>
    ELSE IF Len(list) = 1 THEN Head(list)
    ELSE Head(list) \o <<BlankLine>> \o JoinBlankLine(Tail(list))

\* The local variables of a call that has returned.
ChunkerFrameDropped ==
    /\ sentences' = <<>>
    /\ max_words' = 0
    /\ overlap_words' = 0
    /\ chunks' = <<>>
    /\ current_chunk' = <<>>
    /\ current_length' = 0
    /\ i' = 0

\* Step 1: fetch_url and extract; a failed fetch prints and binds nothing.
FetchCell ==
    /\ pc = "fetch"
    /\ \/ /\ downloaded' = "html"
          /\ \E text \in Articles : article' = [defined |-> TRUE, text |-> text]
          /\ fetch_output' = "preview"
       \/ /\ downloaded' = "None"
          /\ article' = article
          /\ fetch_output' = "Failed to fetch content."
    /\ pc' = "chunk"
    /\ UNCHANGED <<chunkerVars, nb_chunks, embeddings, values, ins, table,
                   autocommit, query_vector, result_df, context_str, question,
                   prompt, run,
                   skipped, statements>>

\* Step 2: chunks = overlapping_sentence_chunker(article, 200, 50); the call.
\* An unbound article is a NameError, which ends the run.
ChunkCell ==
    /\ pc = "chunk"
    /\ IF article.defined
       THEN /\ ChunkerEntry(Segment(article.text), NotebookMaxWords,
                            NotebookOverlapWords)
            /\ pc' = "loop"
       ELSE /\ pc' = "halted"
            /\ UNCHANGED chunkerVars
    /\ UNCHANGED nbVars

\* The call returns and the result is bound to the global.
ChunkCellReturn ==
    /\ pc = "done"
    /\ nb_chunks' = chunks
    /\ ChunkerFrameDropped
    /\ pc' = "embed"
    /\ UNCHANGED <<article, embeddings, values, ins, table, autocommit,
                   query_vector, result_df, context_str, question, prompt, run,
                   downloaded, fetch_output, skipped, statements>>

\* embeddings = embedding_model.create_embedding(chunks): one item per chunk.
EmbedCell ==
    /\ pc = "embed"
    /\ \E bad \in SUBSET (1..Len(nb_chunks)) :
         /\ Cardinality(bad) <= MaxBadEmbeddings
         /\ \E as \in [bad -> BadEmbeddings] :
              embeddings' = [k \in 1..Len(nb_chunks) |->
                               [embedding |-> IF k \in bad THEN as[k]
                                              ELSE EmbedText(nb_chunks[k])]]
    /\ pc' = "reset"
    /\ UNCHANGED <<chunkerVars, article, nb_chunks, values, ins, table,
                   autocommit, query_vector, result_df, context_str, question,
                   prompt, run,
                   downloaded, fetch_output, skipped, statements>>

\* Variant: no DROP, and CREATE TABLE fails on the table that exists.
ResetSchemaNoDrop ==
    /\ pc = "reset"
    /\ table' = IF table.exists THEN table
                ELSE [exists |-> TRUE, rows |-> <<>>, next_id |-> 1]
    /\ statements' = <<"create table">>
    /\ pc' = "values"
    /\ UNCHANGED <<chunkerVars, article, nb_chunks, embeddings, values, ins,
                   autocommit, query_vector, result_df, context_str, question,
                   prompt, run,
                   downloaded, fetch_output, skipped>>

\* DROP TABLE IF EXISTS embeddings; CREATE TABLE embeddings (...).
ResetSchema ==
    /\ pc = "reset"
    /\ table' = [exists |-> TRUE, rows |-> <<>>, next_id |-> 1]
    /\ statements' = <<"drop table if exists", "create table">>
    /\ pc' = "values"
    /\ UNCHANGED <<chunkerVars, article, nb_chunks, embeddings, values, ins,
                   autocommit, query_vector, result_df, context_str, question,
                   prompt, run,
                   downloaded, fetch_output, skipped>>

\* values = [...]; stmt = prepare INSERT ...
PrepareValues ==
    /\ pc = "values"
    /\ values' = PrepareFrom(nb_chunks, embeddings, 1)
    /\ skipped' = SkippedFrom(nb_chunks, embeddings, 1)
    /\ statements' = Append(statements, "prepare")
    /\ pc' = "autocommit_off"
    /\ UNCHANGED <<chunkerVars, article, nb_chunks, embeddings, ins, table,
                   autocommit, query_vector, result_df, context_str, question,
                   prompt, run,
                   downloaded, fetch_output>>

\* Variant: autocommit is left on.
AutocommitOffForgotten ==
    /\ pc = "autocommit_off"
    /\ statements' = Append(statements, "autocommit off")
    /\ ins' = 0
    /\ pc' = "insert"
    /\ UNCHANGED <<chunkerVars, article, nb_chunks, embeddings, values, table,
                   autocommit, query_vector, result_df, context_str, question,
                   prompt, run, downloaded, fetch_output, skipped>>

\* %sql autocommit off
AutocommitOff ==
    /\ pc = "autocommit_off"
    /\ autocommit' = FALSE
    /\ statements' = Append(statements, "autocommit off")
    /\ ins' = 0
    /\ pc' = "insert"
    /\ UNCHANGED <<chunkerVars, article, nb_chunks, embeddings, values, table,
                   query_vector, result_df, context_str, question, prompt, run,
                   downloaded, fetch_output, skipped>>

\* One round of the insert loop: execute :stmt using :content, :vector_str.
\* A vector the database rejects inserts nothing.
ExecuteInsert ==
    /\ pc = "insert"
    /\ ins < Len(values)
    /\ LET v == values[ins + 1]
           e == ParseVector(v.vector_str, EmbeddingDim)
       IN table' = IF e = NoneValue THEN table
                   ELSE [table EXCEPT
                           !.rows = Append(@, [id |-> table.next_id,
                                               content |-> v.content,
                                               embedding |-> e,
                                               committed |-> autocommit,
                                               run |-> run]),
                           !.next_id = @ + 1]
    /\ statements' = Append(statements, "execute")
    /\ ins' = ins + 1
    /\ UNCHANGED <<chunkerVars, pc, article, nb_chunks, embeddings, values,
                   autocommit, query_vector, result_df, context_str, question,
                   prompt, run,
                   downloaded, fetch_output, skipped>>

\* The loop is over: %sql commit work
CommitWork ==
    /\ pc = "insert"
    /\ ins >= Len(values)
    /\ table' = [table EXCEPT
                   !.rows = [k \in 1..Len(@) |-> [@[k] EXCEPT !.committed = TRUE]]]
    /\ statements' = Append(statements, "commit work")
    /\ pc' = "autocommit_on"
    /\ UNCHANGED <<chunkerVars, article, nb_chunks, embeddings, values, ins,
                   autocommit, query_vector, result_df, context_str, question,
                   prompt, run,
                   downloaded, fetch_output, skipped>>

\* %sql autocommit on
AutocommitOn ==
    /\ pc = "autocommit_on"
    /\ autocommit' = TRUE
    /\ statements' = Append(statements, "autocommit on")
    /\ pc' = "question"
    /\ UNCHANGED <<chunkerVars, article, nb_chunks, embeddings, values, ins,
                   table, query_vector, result_df, context_str, question,
                   prompt, run,
                   downloaded, fetch_output, skipped>>

\* question = ...; query_vector = create_embedding(question)[...]
QuestionCell ==
    /\ pc = "question"
    /\ \E q \in Questions :
         /\ question' = q
         /\ query_vector' = EmbedText(q)
    /\ pc' = "retrieve"
    /\ UNCHANGED <<chunkerVars, article, nb_chunks, embeddings, values, ins,
                   table, autocommit, result_df, context_str, prompt, run,
                   downloaded, fetch_output, skipped, statements>>

\* SQL_DISTANCE and context_str.
RetrieveCell ==
    /\ pc = "retrieve"
    /\ LET query_embedding_str == VectorStr(query_vector)
           q == ParseVector(query_embedding_str, EmbeddingDim)
       IN \E order \in FetchFirst(table.rows, 1..Len(table.rows), q, TopK) :
            /\ result_df' =
                 [k \in 1..Len(order) |->
                    [CONTEXT |-> table.rows[order[k]].content,
                     DISTANCE |-> EuclideanSq(q, table.rows[order[k]].embedding)]]
            /\ context_str' =
                 JoinBlankLine([k \in 1..Len(order) |-> table.rows[order[k]].content])
    /\ pc' = "generate"
    /\ UNCHANGED <<chunkerVars, article, nb_chunks, embeddings, values, ins,
                   table, autocommit, query_vector, question, prompt, run,
                   downloaded, fetch_output, skipped, statements>>

\* prompt = prompt_template.format(context=context_str, question=question)
GenerateCell ==
    /\ pc = "generate"
    /\ prompt' = [context |-> context_str, question |-> question]
    /\ pc' = "end"
    /\ UNCHANGED <<chunkerVars, article, nb_chunks, embeddings, values, ins,
                   table, autocommit, query_vector, result_df, context_str,
                   question, run,
                   downloaded, fetch_output, skipped, statements>>

\* The notebook is run again in the same kernel and database.
RunAgain ==
    /\ pc \in {"end", "halted"}
    /\ run < MaxRuns
    /\ run' = run + 1
    /\ pc' = "fetch"
    /\ UNCHANGED <<chunkerVars, article, nb_chunks, embeddings, values, ins,
                   table, autocommit, query_vector, result_df, context_str,
                   question, prompt,
                   downloaded, fetch_output, skipped, statements>>

\* ---------------------------------------------------------- specifications
\* The notebook globals before the first cell has run.
NotebookStart ==
    /\ article = Undefined
    /\ nb_chunks = <<>>
    /\ embeddings = <<>>
    /\ values = <<>>
    /\ ins = 0
    /\ table = NoTable
    /\ autocommit = TRUE
    /\ query_vector = NoneValue
    /\ result_df = <<>>
    /\ context_str = <<>>
    /\ question = <<>>
    /\ prompt = [context |-> <<>>, question |-> <<>>]
    /\ run = 1
    /\ downloaded = "unbound"
    /\ fetch_output = ""
    /\ skipped = <<>>
    /\ statements = <<>>

\* The chunker called on any segmented text and any parameters.
Init ==
    /\ sentences \in SentenceLists(MaxSents, 1..MaxSentWords)
    /\ max_words \in 1..MaxW
    /\ overlap_words \in 0..MaxO
    /\ chunks = <<>>
    /\ current_chunk = <<>>
    /\ current_length = 0
    /\ i = 0
    /\ pc = "loop"
    /\ NotebookStart

Next ==
    \/ AppendSentence
    \/ CloseChunk
    \/ ReturnChunks

Spec == Init /\ [][Next]_vars

\* The chunker on the worked example's family of inputs: up to five sentences
\* of three or four words, max_words 10.
ExampleInit ==
    /\ sentences \in SentenceLists(5, 3..4)
    /\ max_words = 10
    /\ overlap_words \in 0..3
    /\ chunks = <<>>
    /\ current_chunk = <<>>
    /\ current_length = 0
    /\ i = 0
    /\ pc = "loop"
    /\ NotebookStart

ExampleSpec == ExampleInit /\ [][Next]_vars

\* The notebook, run from its first cell, MaxRuns times at most.
NotebookInit ==
    /\ sentences = <<>>
    /\ max_words = 0
    /\ overlap_words = 0
    /\ chunks = <<>>
    /\ current_chunk = <<>>
    /\ current_length = 0
    /\ i = 0
    /\ pc = "fetch"
    /\ NotebookStart

NotebookNext ==
    \/ FetchCell
    \/ ChunkCell
    \/ AppendSentence
    \/ CloseChunk
    \/ ReturnChunks
    \/ ChunkCellReturn
    \/ EmbedCell
    \/ ResetSchema
    \/ PrepareValues
    \/ AutocommitOff
    \/ ExecuteInsert
    \/ CommitWork
    \/ AutocommitOn
    \/ QuestionCell
    \/ RetrieveCell
    \/ GenerateCell
    \/ RunAgain

NotebookSpec == NotebookInit /\ [][NotebookNext]_vars

\* ------------------------------------------------------------------ claims
\* The sentences of a chunk are its runs; a run is a whole sentence of the
\* input when it holds all the words of that sentence.
WholeSentence(r) ==
    r.s \in 1..Len(sentences) /\ sentences[r.s] = <<r>>

\* The last m sentences of chunk c, and the first m.
TailRuns(c, m) == SubSeq(c, Len(c) - m + 1, Len(c))
HeadRuns(c, m) == SubSeq(c, 1, m)

\* C1: with overlap_words < max_words, every chunk appended to the output has
\* at most max_words words, unless it is exactly one sentence that is itself
\* longer than max_words.
C1_ChunkWithinMaxWords ==
    overlap_words < max_words =>
        \A c \in 1..Len(chunks) :
            \/ WordCount(chunks[c]) <= max_words
            \/ \E k \in 1..Len(sentences) :
                 /\ chunks[c] = sentences[k]
                 /\ WordCount(sentences[k]) > max_words

\* A returned list of several chunks, one of them several sentences that
\* fill max_words exactly.
C1_Witness ==
    /\ pc = "done"
    /\ overlap_words < max_words
    /\ Len(chunks) >= 2
    /\ \E c \in 1..Len(chunks) :
         Len(chunks[c]) >= 2 /\ WordCount(chunks[c]) = max_words

\* C2: a sentence longer than max_words that meets an empty buffer is appended
\* to it whole and the scan moves on (so that it is emitted as a chunk of its
\* own and the loop ends).
C2_OversizedSentenceAppended ==
    [][ ( /\ pc = "loop"
          /\ i < Len(sentences)
          /\ current_chunk = <<>>
          /\ WordCount(sentences[i + 1]) > max_words )
        => ( /\ i' = i + 1
             /\ current_chunk' = <<sentences[i + 1]>>
             /\ chunks' = chunks ) ]_vars

\* The inputs C3 is about.
C3_Input ==
    /\ Len(sentences) >= 1
    /\ overlap_words < max_words
    /\ \A k \in 1..Len(sentences) : WordCount(sentences[k]) <= max_words

\* C3: on such inputs the loop makes forward progress.  An iteration that
\* closes a chunk leaves i alone; the loop is deterministic and the overlap of
\* an overlap is itself, so the scan goes on exactly when the sentence that
\* overflowed fits the buffer the overlap leaves.
C3_ForwardProgress ==
    [][ ( /\ C3_Input
          /\ pc = "loop"
          /\ pc' = "loop"
          /\ i' = i )
        => current_length' + WordCount(sentences[i + 1]) <= max_words ]_vars

\* C4: two consecutive chunks share the sentences carried over, the same
\* strings in the same order at the tail of the first and the head of the
\* second, and these count at least overlap_words words, or are the whole
\* first chunk when that has fewer words.
C4_OverlapCarried ==
    \A c \in 1..(Len(chunks) - 1) :
        \E m \in 0..Len(chunks[c]) :
            /\ m <= Len(chunks[c + 1])
            /\ TailRuns(chunks[c], m) = HeadRuns(chunks[c + 1], m)
            /\ \/ WordCount(TailRuns(chunks[c], m)) >= overlap_words
               \/ /\ m = Len(chunks[c])
                  /\ WordCount(chunks[c]) < overlap_words

\* A returned list in which a chunk of several sentences hands its last
\* sentence, and not its first, over to the next chunk.
C4_Witness ==
    /\ pc = "done"
    /\ overlap_words >= 1
    /\ \E c \in 1..(Len(chunks) - 1) :
         /\ Len(chunks[c]) >= 2
         /\ Len(chunks[c + 1]) >= 2
         /\ chunks[c + 1][1] = chunks[c][Len(chunks[c])]
         /\ chunks[c + 1][1] # chunks[c][1]

\* C5: when the chunker returns, every sentence of the input is in some chunk,
\* whole and unchanged.
C5_NoSentenceDropped ==
    pc = "done" =>
        \A k \in 1..Len(sentences) :
            \E c \in 1..Len(chunks) :
                \E p \in 1..Len(chunks[c]) : <<chunks[c][p]>> = sentences[k]

\* A return with three sentences or more, spread over several chunks.
C5_Witness ==
    /\ pc = "done"
    /\ Len(sentences) >= 3
    /\ Len(chunks) >= 2

\* The worked example: five sentences of four words, max_words 10, overlap 3.
C6_Example ==
    /\ sentences = Document(<<4, 4, 4, 4, 4>>)
    /\ max_words = 10
    /\ overlap_words = 3

\* C6: on the worked example the chunker returns more than one chunk, the
\* first is S1 S2 (8 words) and the second starts with S2 and then S3.
C6_WorkedExample ==
    (C6_Example /\ pc = "done") =>
        /\ Len(chunks) > 1
        /\ chunks[1] = sentences[1] \o sentences[2]
        /\ WordCount(chunks[1]) = 8
        /\ Len(chunks[2]) >= 2
        /\ HeadRuns(chunks[2], 2) = sentences[2] \o sentences[3]

C6_Witness == C6_Example /\ pc = "done"

\* A chunk that is the sentences a..b of the input, in order.
ContiguousRun(c) ==
    /\ c # <<>>
    /\ \A p \in 1..Len(c) : WholeSentence(c[p])
    /\ \A p \in 1..(Len(c) - 1) : c[p + 1].s = c[p].s + 1

\* C7: every chunk is a contiguous run of sentences a..b, and from a chunk to
\* the next the last index grows and the first neither goes back nor leaves
\* a gap.
C7_DocumentOrder ==
    /\ \A c \in 1..Len(chunks) : ContiguousRun(chunks[c])
    /\ \A c \in 1..(Len(chunks) - 1) :
         LET a == chunks[c][1].s
             b == chunks[c][Len(chunks[c])].s
             a2 == chunks[c + 1][1].s
             b2 == chunks[c + 1][Len(chunks[c + 1])].s
         IN b2 > b /\ a <= a2 /\ a2 <= b + 1

\* The smaller of two numbers.
Smaller(a, b) == IF a <= b THEN a ELSE b

\* The cells after the table has been reset in the current run.
AfterReset ==
    {"values", "autocommit_off", "insert", "autocommit_on", "question",
     "retrieve", "generate", "end"}

\* Every chunk of the batch came back with a vector of 384 elements.
AllEmbeddingsValid ==
    /\ Len(embeddings) = Len(nb_chunks)
    /\ \A k \in 1..Len(embeddings) :
         /\ embeddings[k].embedding # NoneValue
         /\ embeddings[k].embedding.dim = EmbeddingDim

\* C8: when all M chunks have a 384-element embedding, the table holds exactly
\* M records after the commit, and the k-th record inserted (id k) holds the
\* content of chunk k and the vector computed for chunk k.
C8_RowsPairedWithChunks ==
    (pc = "autocommit_on" /\ AllEmbeddingsValid) =>
        /\ Len(table.rows) = Len(nb_chunks)
        /\ \A k \in 1..Len(table.rows) :
             /\ table.rows[k].id = k
             /\ table.rows[k].content = nb_chunks[k]
             /\ table.rows[k].embedding = embeddings[k].embedding
             /\ table.rows[k].committed

\* The commit of a second run, of several chunks with distinct vectors.
C8_Witness ==
    /\ pc = "autocommit_on"
    /\ AllEmbeddingsValid
    /\ run = 2
    /\ Len(nb_chunks) >= 2
    /\ embeddings[1].embedding # embeddings[2].embedding

\* str.split("\n\n") of a context string that is not empty.
RECURSIVE SplitBlankLine(_, _)
SplitBlankLine(str, piece) ==
    IF str = <<>> THEN <<piece>>
    ELSE IF Head(str) = BlankLine
         THEN <<piece>> \o SplitBlankLine(Tail(str), <<>>)
         ELSE SplitBlankLine(Tail(str), Append(piece, Head(str)))

\* C9: the retrieval returns rows of the table in non-decreasing order of
\* their distance to the query vector, min(top_k, stored count) of them, and
\* the context string is their contents in that order, a blank line between.
C9_RetrievalOrdered ==
    pc = "generate" =>
        /\ Len(result_df) = Smaller(TopK, Len(table.rows))
        /\ \A k \in 1..Len(result_df) :
             \E r \in 1..Len(table.rows) :
                /\ table.rows[r].content = result_df[k].CONTEXT
                /\ EuclideanSq(query_vector, table.rows[r].embedding)
                     = result_df[k].DISTANCE
        /\ \A k \in 1..(Len(result_df) - 1) :
             result_df[k].DISTANCE <= result_df[k + 1].DISTANCE
        /\ IF result_df = <<>> THEN context_str = <<>>
           ELSE SplitBlankLine(context_str, <<>>)
                  = [k \in 1..Len(result_df) |-> result_df[k].CONTEXT]

\* A retrieval from more rows than top_k, at distances that differ.
C9_Witness ==
    /\ pc = "generate"
    /\ Len(table.rows) > TopK
    /\ Len(result_df) = TopK
    /\ result_df[1].DISTANCE < result_df[TopK].DISTANCE

\* C10: the table holds only records of the most recent ingestion: all its
\* records were inserted in one run, and once the current run has reset the
\* table (and so at the end of every run) in the current run.
C10_OnlyLatestRun ==
    table.exists =>
        /\ \A a, b \in 1..Len(table.rows) : table.rows[a].run = table.rows[b].run
        /\ pc \in AfterReset =>
             \A a \in 1..Len(table.rows) : table.rows[a].run = run

\* The end of a second run that has stored records.
C10_Witness ==
    /\ pc = "end"
    /\ run = 2
    /\ table.exists
    /\ Len(table.rows) >= 2

\* The positions of the batch whose embedding has exactly 384 elements.
ValidPositions ==
    { k \in 1..Len(nb_chunks) :
        /\ k <= Len(embeddings)
        /\ embeddings[k].embedding # NoneValue
        /\ embeddings[k].embedding.dim = EmbeddingDim }

\* The place of position k among the valid positions up to it.
RankOfValid(k) == Cardinality({ j \in ValidPositions : j <= k })

\* The cells of the insert cell that follow the preparation of values.
AfterValues == {"autocommit_off", "insert", "autocommit_on"}

\* C11: a chunk whose embedding is missing, empty or not of 384 elements is
\* skipped with a printed message and the run goes on: values is exactly the
\* (chunk, vector) pairs of the valid positions, in their order, the other
\* rows are printed as skipped, and after the commit the table holds one
\* record per valid position, fewer than there are chunks when one was skipped.
C11_InvalidSkipped ==
    pc \in AfterValues =>
        /\ Len(values) = Cardinality(ValidPositions)
        /\ \A k \in ValidPositions :
             /\ values[RankOfValid(k)].content = nb_chunks[k]
             /\ ParseVector(values[RankOfValid(k)].vector_str, EmbeddingDim)
                  = embeddings[k].embedding
        /\ Len(skipped) = Len(nb_chunks) - Cardinality(ValidPositions)
        /\ \A p \in 1..Len(skipped) :
             /\ skipped[p] \in (1..Len(nb_chunks)) \ ValidPositions
             /\ p > 1 => skipped[p - 1] < skipped[p]
        /\ pc = "autocommit_on" =>
             /\ Len(table.rows) = Cardinality(ValidPositions)
             /\ skipped # <<>> => Len(table.rows) < Len(nb_chunks)

\* The commit of a batch of three chunks or more whose second one was
\* skipped: the table holds the others.
C11_Witness ==
    /\ pc = "autocommit_on"
    /\ Len(nb_chunks) >= 3
    /\ skipped = <<2>>
    /\ Len(table.rows) = Len(nb_chunks) - 1
    /\ table.rows[2].content = nb_chunks[3]

\* n times the statement st.
Repeated(st, n) == [k \in 1..n |-> st]

\* The statements of a whole ingestion, from autocommit off on.
BatchStatements ==
    <<"autocommit off">> \o Repeated("execute", Len(values))
        \o <<"commit work", "autocommit on">>

\* The statements issued so far, without the schema reset and the prepare.
BatchIssued == SelectSeq(statements,
    LAMBDA st : st \in {"autocommit off", "execute", "commit work", "autocommit on"})

\* The cells that follow the insert cell in a run.
AfterIngestion == {"question", "retrieve", "generate", "end"}

\* C12: the ingestion goes autocommit off, all inserts, one commit, autocommit
\* on: the statements issued are a prefix of that sequence and the whole of it
\* once the cell has finished; autocommit is off wherever an insert can be
\* executed; no row is committed while an insert of the batch is still to
\* come; and autocommit is on again when the cell has finished.
C12_CommitOnceAfterInserts ==
    /\ pc \in AfterValues \cup AfterIngestion =>
         /\ Len(BatchIssued) <= Len(BatchStatements)
         /\ BatchIssued = SubSeq(BatchStatements, 1, Len(BatchIssued))
    /\ pc \in AfterIngestion => BatchIssued = BatchStatements
    /\ pc = "insert" =>
         /\ ~autocommit
         /\ \A k \in 1..Len(table.rows) : ~table.rows[k].committed
    /\ pc = "autocommit_on" =>
         /\ ~autocommit
         /\ \A k \in 1..Len(table.rows) : table.rows[k].committed
    /\ pc \in AfterIngestion => autocommit

\* The end of a run that inserted several rows.
C12_Witness ==
    /\ pc = "end"
    /\ Len(values) >= 2
    /\ Len(table.rows) = Len(values)
    /\ BatchIssued = BatchStatements

\* The stages that come after the fetch and work on an article.
LaterStages ==
    {"loop", "done", "embed", "reset", "values", "autocommit_off", "insert",
     "autocommit_on", "question", "retrieve", "generate", "end"}

\* C13: when the fetch of the current run failed (fetch_url returned nothing),
\* the run halts: no later stage is executed with an article.
C13_FailedFetchHalts ==
    (pc # "fetch" /\ downloaded = "None") => pc \notin LaterStages

\* C14: no element of the chunks list is the empty string.
C14_NoEmptyChunk ==
    \A c \in 1..Len(chunks) : chunks[c] # <<>>

====
